---- MODULE Spec2Model ----
(***************************************************************************)
(* Model of src/main.py: the Cloud Run entrypoint generate_image, its      *)
(* retry wrapper retry_call and the helpers it sequences.                  *)
(*                                                                         *)
(* Strings are sequences of tokens (a token is a non-empty string), so the *)
(* empty string is <<>> and concatenation is \o.                           *)
(***************************************************************************)
EXTENDS Integers, Sequences, FiniteSets, TLC

\* ------------------------------------------------------------------------
\* Bounds of the model
\* ------------------------------------------------------------------------
MaxAttemptsBound == 5
MaxTextLen == 3
MaxBgWidth == 25
MaxBgHeight == 3
MaxPackshotWidth == 11
MaxPackshotHeight == 15

\* ------------------------------------------------------------------------
\* Program constants
\* ------------------------------------------------------------------------
DefaultMaxAttempts == 5
\* base_delay = 1.5 s in milliseconds, jitter = 0.2 in thousandths
BaseDelayMs == 1500
JitterPermille == 200
FallbackStatus == 503
ServiceUnavailableCode == 503

REQUIRED_FIELDS == {"general_description", "background_description", "copy", "packshot_url"}

\* ------------------------------------------------------------------------
\* Exceptions: class, the `code` attribute (google.api_core errors carry an
\* HTTPStatus member or None), and the message given to the constructor.
\* ------------------------------------------------------------------------
Msgs == {<<"m1">>, <<"m2">>}
MsgsOrEmpty == Msgs \cup {<<>>}
UpstreamCodes == {403, 429, 500}

Exc(cls, hasCode, codeIsNone, codeValue, msg) ==
  [cls |-> cls, hasCode |-> hasCode, codeIsNone |-> codeIsNone,
   codeValue |-> codeValue, msg |-> msg]

NoExc == Exc("none", FALSE, TRUE, 0, <<>>)

ServiceUnavailableErrors ==
  {Exc("ServiceUnavailable", TRUE, FALSE, ServiceUnavailableCode, m) : m \in Msgs}

\* Other GoogleAPICallError instances: a subclass with its HTTPStatus code, or
\* the base class, whose `code` class attribute is None.
ApiErrors ==
  {Exc("GoogleAPICallError", TRUE, FALSE, c, m) : c \in UpstreamCodes, m \in Msgs}
  \cup {Exc("GoogleAPICallError", TRUE, TRUE, 0, m) : m \in Msgs}

PlainErrors(cls) == {Exc(cls, FALSE, TRUE, 0, m) : m \in MsgsOrEmpty}

AttributeError == Exc("AttributeError", FALSE, TRUE, 0, <<"no attribute">>)

\* Python's isinstance over the classes that the except clauses name.
IsInstance(e, cls) ==
  CASE cls = "Exception" -> e.cls # "none"
    [] cls = "GoogleAPICallError" -> e.cls \in {"GoogleAPICallError", "ServiceUnavailable"}
    [] OTHER -> e.cls = cls

\* str(exc): GoogleAPICallError formats "<code> <message>", the others their
\* message.
Str(e) ==
  IF IsInstance(e, "GoogleAPICallError")
  THEN <<IF e.codeIsNone THEN "None" ELSE ToString(e.codeValue), " ">> \o e.msg
  ELSE e.msg

\* Outcome of one invocation of an external operation.
Ok(v) == [ok |-> TRUE, val |-> v, exc |-> NoExc]
Raise(e) == [ok |-> FALSE, val |-> <<>>, exc |-> e]

\* ------------------------------------------------------------------------
\* retry_call (src/main.py:69-102)
\* ------------------------------------------------------------------------
RECURSIVE Pow2(_)
Pow2(n) == IF n = 0 THEN 1 ELSE 2 * Pow2(n - 1)

RetryInit(maxAttempts) ==
  [max |-> maxAttempts, attempt |-> 1, status |-> "calling",
   val |-> <<>>, exc |-> NoExc, trace |-> <<>>, lastSleep |-> 0]

\* Faulty variant: gives up one attempt late (attempt > max_attempts).
RetryOnOutcome_ExtraAttempt(st, out) ==
  LET st1 == [st EXCEPT !.trace = Append(@, "call")] IN
  IF out.ok
  THEN [st1 EXCEPT !.status = "returned", !.val = out.val]
  ELSE IF IsInstance(out.exc, "ServiceUnavailable")
       THEN IF st.attempt > st.max
            THEN [st1 EXCEPT !.status = "raised", !.exc = out.exc]
            ELSE [st1 EXCEPT !.status = "sleeping"]
       ELSE [st1 EXCEPT !.status = "raised", !.exc = out.exc]

\* Faulty variant: sleeps once more before re-raising on the last attempt.
RetryOnOutcome_SleepBeforeRaise(st, out) ==
  LET st1 == [st EXCEPT !.trace = Append(@, "call")] IN
  IF out.ok
  THEN [st1 EXCEPT !.status = "returned", !.val = out.val]
  ELSE IF IsInstance(out.exc, "ServiceUnavailable")
       THEN IF st.attempt = st.max
            THEN [st1 EXCEPT !.status = "raised", !.exc = out.exc,
                             !.trace = Append(@, "sleep")]
            ELSE [st1 EXCEPT !.status = "sleeping"]
       ELSE [st1 EXCEPT !.status = "raised", !.exc = out.exc]

\* Faulty variant: gives up one attempt early (attempt >= max_attempts - 1).
RetryOnOutcome_OffByOne(st, out) ==
  LET st1 == [st EXCEPT !.trace = Append(@, "call")] IN
  IF out.ok
  THEN [st1 EXCEPT !.status = "returned", !.val = out.val]
  ELSE IF IsInstance(out.exc, "ServiceUnavailable")
       THEN IF st.attempt + 1 >= st.max
            THEN [st1 EXCEPT !.status = "raised", !.exc = out.exc]
            ELSE [st1 EXCEPT !.status = "sleeping"]
       ELSE [st1 EXCEPT !.status = "raised", !.exc = out.exc]

\* Faulty variant: on exhaustion raises a new error instead of re-raising.
RetryOnOutcome_Wrap(st, out) ==
  LET st1 == [st EXCEPT !.trace = Append(@, "call")] IN
  IF out.ok
  THEN [st1 EXCEPT !.status = "returned", !.val = out.val]
  ELSE IF IsInstance(out.exc, "ServiceUnavailable")
       THEN IF st.attempt = st.max
            THEN [st1 EXCEPT !.status = "raised",
                             !.exc = Exc("RetryError", FALSE, TRUE, 0, out.exc.msg)]
            ELSE [st1 EXCEPT !.status = "sleeping"]
       ELSE [st1 EXCEPT !.status = "raised", !.exc = out.exc]

\* Faulty variant: catches GoogleAPICallError instead of ServiceUnavailable.
RetryOnOutcome_RetryAll(st, out) ==
  LET st1 == [st EXCEPT !.trace = Append(@, "call")] IN
  IF out.ok
  THEN [st1 EXCEPT !.status = "returned", !.val = out.val]
  ELSE IF IsInstance(out.exc, "GoogleAPICallError")
       THEN IF st.attempt = st.max
            THEN [st1 EXCEPT !.status = "raised", !.exc = out.exc]
            ELSE [st1 EXCEPT !.status = "sleeping"]
       ELSE [st1 EXCEPT !.status = "raised", !.exc = out.exc]

\* One iteration of the for loop up to (not including) the sleep: invoke fn,
\* return its value, re-raise on the last attempt, let any other class through.
RetryOnOutcome(st, out) ==
  LET st1 == [st EXCEPT !.trace = Append(@, "call")] IN
  IF out.ok
  THEN [st1 EXCEPT !.status = "returned", !.val = out.val]
  ELSE IF IsInstance(out.exc, "ServiceUnavailable")
       THEN IF st.attempt = st.max
            THEN [st1 EXCEPT !.status = "raised", !.exc = out.exc]
            ELSE [st1 EXCEPT !.status = "sleeping"]
       ELSE [st1 EXCEPT !.status = "raised", !.exc = out.exc]

\* What random.uniform(-jitter, jitter) can return, in thousandths.
JitterDraws == {-JitterPermille, 0, JitterPermille}

\* Lines 99-100: base_delay * 2 ** (attempt - 1) * (1 + u), in microseconds
\* (milliseconds times thousandths).
SleepTime(attempt, u) == BaseDelayMs * Pow2(attempt - 1) * (1000 + u)

\* Faulty variant: the exponent is attempt instead of attempt - 1.
RetrySleep_WrongExponent(st, u) ==
  [st EXCEPT !.status = "calling", !.attempt = @ + 1, !.trace = Append(@, "sleep"),
             !.lastSleep = BaseDelayMs * Pow2(st.attempt) * (1000 + u)]

\* time.sleep(sleep_time), then the next iteration of the loop.
RetrySleep(st, u) ==
  [st EXCEPT !.status = "calling", !.attempt = @ + 1, !.trace = Append(@, "sleep"),
             !.lastSleep = SleepTime(st.attempt, u)]

Count(seq, x) == Cardinality({i \in 1..Len(seq) : seq[i] = x})
Invocations(st) == Count(st.trace, "call")
Sleeps(st) == Count(st.trace, "sleep")

\* ------------------------------------------------------------------------
\* Request bodies and validation (src/main.py:192-203)
\* ------------------------------------------------------------------------
AllKeys == REQUIRED_FIELDS \cup {"extra"}
ValueKinds == {"str", "empty", "nonstr"}

\* Code points of the key names, as Python compares str values.
FieldChars(f) ==
  CASE f = "general_description" ->
         <<103, 101, 110, 101, 114, 97, 108, 95, 100, 101, 115, 99, 114, 105, 112, 116, 105, 111, 110>>
    [] f = "background_description" ->
         <<98, 97, 99, 107, 103, 114, 111, 117, 110, 100, 95, 100, 101, 115, 99, 114, 105, 112, 116, 105, 111, 110>>
    [] f = "copy" -> <<99, 111, 112, 121>>
    [] f = "packshot_url" -> <<112, 97, 99, 107, 115, 104, 111, 116, 95, 117, 114, 108>>
    [] f = "extra" -> <<101, 120, 116, 114, 97>>

LexLess(a, b) ==
  \E i \in 1..(Len(a) + 1) :
    /\ \A j \in 1..(i - 1) : j <= Len(b) /\ a[j] = b[j]
    /\ i <= Len(b)
    /\ (i = Len(a) + 1 \/ a[i] < b[i])

StrLess(f, g) == LexLess(FieldChars(f), FieldChars(g))

\* Faulty variant: joins the names in descending order.
RECURSIVE Sorted_Descending(_)
Sorted_Descending(S) ==
  IF S = {} THEN <<>>
  ELSE LET m == CHOOSE x \in S : \A y \in S \ {x} : StrLess(y, x)
       IN <<m>> \o Sorted_Descending(S \ {m})

\* sorted(missing)
RECURSIVE Sorted(_)
Sorted(S) ==
  IF S = {} THEN <<>>
  ELSE LET m == CHOOSE x \in S : \A y \in S \ {x} : StrLess(x, y)
       IN <<m>> \o Sorted(S \ {m})

\* sep.join(seq)
RECURSIVE Join(_, _)
Join(sep, seq) ==
  IF Len(seq) = 0 THEN <<>>
  ELSE IF Len(seq) = 1 THEN <<seq[1]>>
  ELSE <<seq[1], sep>> \o Join(sep, Tail(seq))

Range(seq) == {seq[i] : i \in 1..Len(seq)}

\* The keys of a JSON object in the order they appear in the body.
KeyOrders ==
  {ks \in UNION {[1..n -> AllKeys] : n \in 0..Cardinality(AllKeys)} :
     \A i, j \in 1..Len(ks) : i # j => ks[i] # ks[j]}

\* Request bodies: no/unparseable JSON, JSON that is not an object, or an
\* object with its keys in some order and at most one required value that is
\* empty or not a string.
RawBodies ==
  {[kind |-> k, keys |-> <<>>, bad |-> "none", badKind |-> "str"] :
     k \in {"invalid", "nonobject"}}
  \cup {[kind |-> "object", keys |-> ks, bad |-> "none", badKind |-> "str"] :
          ks \in KeyOrders}
  \cup {b \in [kind : {"object"}, keys : KeyOrders, bad : REQUIRED_FIELDS,
               badKind : {"empty", "nonstr"}] : b.bad \in Range(b.keys)}

\* request.get_json(silent=True): None, a non-dict value, or a dict.
GetJson(body) ==
  [kind |-> IF body.kind = "invalid" THEN "none"
            ELSE IF body.kind = "nonobject" THEN "nonobject" ELSE "dict",
   keys |-> Range(body.keys), bad |-> body.bad, badKind |-> body.badKind]

NoPayload == [kind |-> "none", keys |-> {}, bad |-> "none", badKind |-> "str"]

ValueKind(p, f) == IF p.bad = f THEN p.badKind ELSE "str"

\* REQUIRED_FIELDS - payload.keys()
Missing(p) == REQUIRED_FIELDS \ p.keys

MissingMessage(missing) ==
  <<"Missing required field(s): ">> \o Join(", ", Sorted(missing))

\* ------------------------------------------------------------------------
\* Responses: (jsonify(body), status)
\* ------------------------------------------------------------------------
Response(status, keys, success, error, details, url, prompt) ==
  [status |-> status, keys |-> keys, success |-> success, error |-> error,
   details |-> details, imageUrl |-> url, geminiGeneratedPrompt |-> prompt]

ErrorResponse(status, error) ==
  Response(status, {"error"}, FALSE, error, <<>>, <<>>, <<>>)

ErrorDetailsResponse(status, error, details) ==
  Response(status, {"error", "details"}, FALSE, error, details, <<>>, <<>>)

SuccessResponse(url, prompt) ==
  Response(200, {"success", "imageUrl", "geminiGeneratedPrompt"}, TRUE,
           <<>>, <<>>, url, prompt)

\* Faulty variant: every upstream error is rewritten to 500.
HandlerStatus_Rewrite500(e) == 500

\* exc.code.value if hasattr(exc, "code") else 503
HandlerStatus(e) == IF e.hasCode THEN e.codeValue ELSE FallbackStatus

\* The except clauses of generate_image.  Evaluating exc.code.value on a
\* code of None raises AttributeError inside the except clause, which no
\* sibling clause catches.
HandleException(e) ==
  IF IsInstance(e, "GoogleAPICallError")
  THEN IF e.hasCode /\ e.codeIsNone
       THEN [raised |-> TRUE, exc |-> AttributeError,
             resp |-> ErrorResponse(0, <<>>)]
       ELSE [raised |-> FALSE, exc |-> NoExc,
             resp |-> ErrorDetailsResponse(HandlerStatus(e),
                                           <<"Vertex AI service error.">>, Str(e))]
  ELSE IF IsInstance(e, "ValueError")
  THEN [raised |-> FALSE, exc |-> NoExc, resp |-> ErrorResponse(400, Str(e))]
  ELSE [raised |-> FALSE, exc |-> NoExc,
        resp |-> ErrorDetailsResponse(500, <<"Internal server error.">>, Str(e))]

\* ------------------------------------------------------------------------
\* Helper functions
\* ------------------------------------------------------------------------
Chars == {"a", " ", "\n"}
IsSpace(c) == c \in {" ", "\n"}
Texts == UNION {[1..n -> Chars] : n \in 0..MaxTextLen}

RECURSIVE LStrip(_)
LStrip(s) ==
  IF s = <<>> THEN <<>>
  ELSE IF IsSpace(Head(s)) THEN LStrip(Tail(s)) ELSE s

RECURSIVE RStrip(_)
RStrip(s) ==
  IF s = <<>> THEN <<>>
  ELSE IF IsSpace(s[Len(s)]) THEN RStrip(SubSeq(s, 1, Len(s) - 1)) ELSE s

Replace(s, old, new) == [i \in 1..Len(s) |-> IF s[i] = old THEN new ELSE s[i]]

\* Faulty variant: the newlines inside the text are kept.
CleanPrompt_KeepNewlines(text) == RStrip(LStrip(text))

\* response.text.strip().replace("\n", " ")
CleanPrompt(text) == Replace(RStrip(LStrip(text)), "\n", " ")

\* ------------------------------------------------------------------------
\* Python float arithmetic (IEEE 754 binary64, round to nearest even) on the
\* values composite_images computes.  A float is its 53-bit significand, most
\* significant bit first, and the exponent e of its last bit: the value is
\* ToInt(m) * 2^e.  Zero has the empty significand.
\* ------------------------------------------------------------------------
SignificandBits == 53

\* Bit sequences are handled a chunk at a time.
ChunkBits == 8

\* The binary digits of n, without leading zeros.
RECURSIVE BitsOf(_)
BitsOf(n) == IF n = 0 THEN <<>> ELSE Append(BitsOf(n \div 2), n % 2)

\* The k binary digits of q < 2^k.
FixedBits(q, k) == [i \in 1..k |-> (q \div Pow2(k - i)) % 2]

RECURSIVE ToIntChunk(_)
ToIntChunk(bits) ==
  IF bits = <<>> THEN 0
  ELSE 2 * ToIntChunk(SubSeq(bits, 1, Len(bits) - 1)) + bits[Len(bits)]

RECURSIVE ToInt(_)
ToInt(bits) ==
  IF Len(bits) <= ChunkBits THEN ToIntChunk(bits)
  ELSE ToInt(SubSeq(bits, 1, Len(bits) - ChunkBits)) * Pow2(ChunkBits)
       + ToIntChunk(SubSeq(bits, Len(bits) - ChunkBits + 1, Len(bits)))

\* The first n bits of the binary fraction r/w (r < w), and the remainder.
RECURSIVE FracBits(_, _, _)
FracBits(r, w, n) ==
  IF n = 0 THEN [bits |-> <<>>, rem |-> r]
  ELSE LET k == IF n < ChunkBits THEN n ELSE ChunkBits
           q == (r * Pow2(k)) \div w
           rest == FracBits((r * Pow2(k)) % w, w, n - k)
       IN IF q >= 0
          THEN [bits |-> FixedBits(q, k) \o rest.bits, rem |-> rest.rem]
          ELSE [bits |-> <<>>, rem |-> 0]

\* Zero bits of r/w (0 < r < w) before its first one bit.
RECURSIVE LeadZeros(_, _)
LeadZeros(r, w) == IF 2 * r >= w THEN 0 ELSE 1 + LeadZeros(2 * r, w)

\* bits + 1
IncBits(bits) ==
  LET zeros == {i \in 1..Len(bits) : bits[i] = 0} IN
  IF zeros = {}
  THEN <<1>> \o [i \in 1..Len(bits) |-> 0]
  ELSE LET p == CHOOSE i \in zeros : \A j \in zeros : j <= i
       IN [i \in 1..Len(bits) |-> IF i < p THEN bits[i] ELSE IF i = p THEN 1 ELSE 0]

FloatZero == [m |-> <<>>, e |-> 0]

\* Round the exact value ToInt(bits) * 2^e (plus something below the last
\* bit when sticky) to 53 bits, ties to even.  bits starts with a one and has
\* at least 53 bits.
RoundNearestEven(bits, sticky, e) ==
  LET n == Len(bits)
      top == SubSeq(bits, 1, SignificandBits)
      rest == SubSeq(bits, SignificandBits + 1, n)
      roundBit == IF rest = <<>> THEN 0 ELSE rest[1]
      below == sticky \/ \E i \in 2..Len(rest) : rest[i] = 1
      up == roundBit = 1 /\ (below \/ top[SignificandBits] = 1)
      inc == IncBits(top)
      e1 == e + Len(rest)
  IN IF ~up THEN [m |-> top, e |-> e1]
     ELSE IF Len(inc) = SignificandBits THEN [m |-> inc, e |-> e1]
     ELSE [m |-> SubSeq(inc, 1, SignificandBits), e |-> e1 + 1]

\* h / w for ints h >= 1, w >= 1 (true division, correctly rounded).
FloatDiv(h, w) ==
  LET ip == BitsOf(h \div w)
      r0 == h % w
  IN IF ip # <<>>
     THEN LET f == FracBits(r0, w, SignificandBits + 1 - Len(ip))
          IN RoundNearestEven(ip \o f.bits, f.rem # 0, -(SignificandBits + 1 - Len(ip)))
     ELSE LET z == LeadZeros(r0, w)
              f == FracBits(r0 * Pow2(z), w, SignificandBits + 1)
          IN RoundNearestEven(f.bits, f.rem # 0, -(z + SignificandBits + 1))

\* bits * n + carry for an int n >= 1, as bits.
RECURSIVE MulBits(_, _, _)
MulBits(bits, n, carry) ==
  IF bits = <<>> THEN BitsOf(carry)
  ELSE LET k == IF Len(bits) < ChunkBits THEN Len(bits) ELSE ChunkBits
           t == ToIntChunk(SubSeq(bits, Len(bits) - k + 1, Len(bits))) * n + carry
       IN IF t >= 0
          THEN MulBits(SubSeq(bits, 1, Len(bits) - k), n, t \div Pow2(k))
               \o FixedBits(t % Pow2(k), k)
          ELSE <<>>

\* n * x for an int n >= 0 and a float x >= 0.
FloatMulInt(n, x) ==
  IF n = 0 \/ x.m = <<>> THEN FloatZero
  ELSE RoundNearestEven(MulBits(x.m, n, 0), FALSE, x.e)

\* int(x) for a float x >= 0 below 2^31.
FloatToInt(x) ==
  IF x.m = <<>> \/ SignificandBits + x.e <= 0 THEN 0
  ELSE ToInt(SubSeq(x.m, 1, SignificandBits + x.e))

\* The literal 0.45.
ScaleFactor == FloatDiv(45, 100)

\* Faulty variant: the RequestException is not translated.
DownloadError_PassThrough(e) == e

\* download_packshot: a requests.RequestException becomes
\* ValueError("Unable to download packshot"); anything else passes through.
DownloadError(e) ==
  IF IsInstance(e, "RequestException")
  THEN Exc("ValueError", FALSE, TRUE, 0, <<"Unable to download packshot">>)
  ELSE e

Uuids == {"u1", "u2"}
\* blob.public_url of generated-image-<uuid>.png
PublicUrl(uuid) == <<"https://storage.googleapis.com/bucket/generated-image-", uuid, ".png">>

\* What each external operation can do when invoked.
ModelOutcomes(values) ==
  {Ok(v) : v \in values}
  \cup {Raise(e) : e \in ServiceUnavailableErrors \cup ApiErrors
                        \cup PlainErrors("ValueError") \cup PlainErrors("Exception")}
TextErrors == PlainErrors("ValueError") \cup PlainErrors("Exception")
DecodeErrors == PlainErrors("Exception")
FetchErrors == PlainErrors("RequestException") \cup PlainErrors("Exception")
OpenErrors == PlainErrors("Exception") \cup PlainErrors("ValueError")
EncodeErrors == PlainErrors("Exception")
StorageErrors == ServiceUnavailableErrors \cup ApiErrors \cup PlainErrors("Exception")

\* ------------------------------------------------------------------------
\* Images and composite_images (src/main.py:161-172)
\* ------------------------------------------------------------------------
\* A background is a buffer of pixels, one colour per coordinate.  A packshot
\* is uniform: one colour, one alpha value (0 transparent, 255 opaque), so
\* that resizing it gives a uniform image of the new size.
BgColour == "B"
PackshotColour == "P"
Alphas == {0, 255}
Coords(w, h) == (0..(w - 1)) \X (0..(h - 1))
BlankPixels(w, h) == [c \in Coords(w, h) |-> BgColour]

NoLayout == [newW |-> 0, newH |-> 0, pasteX |-> 0, pasteY |-> 0]

\* The images of one call: the sizes, the pixels of the background buffer now
\* (bgPx) and when it was passed in (bgPx0), what the call computed, and
\* the buffer it returned with that buffer's pixels.
Images(bgW, bgH, pkW, pkH, alpha) ==
  [bgW |-> bgW, bgH |-> bgH, pkW |-> pkW, pkH |-> pkH, alpha |-> alpha,
   bgPx |-> BlankPixels(bgW, bgH), bgPx0 |-> BlankPixels(bgW, bgH),
   layout |-> NoLayout, resultBuf |-> "none", resultPx |-> BlankPixels(0, 0)]

NoImages == Images(0, 0, 0, 0, 0)

\* Lines 164-166: aspect = packshot.height / packshot.width,
\* new_w = int(bg_w * 0.45), new_h = int(new_w * aspect).
NewSize(bgW, pkW, pkH) ==
  LET aspect == FloatDiv(pkH, pkW)
      newW == FloatToInt(FloatMulInt(bgW, ScaleFactor))
      newH == FloatToInt(FloatMulInt(newW, aspect))
  IN [newW |-> newW, newH |-> newH]

\* new_size for every background width and packshot size within the bounds.
NewSizes ==
  {[bgW |-> a, pkW |-> b, pkH |-> c, size |-> NewSize(a, b, c)] :
     a \in 1..MaxBgWidth, b \in 1..MaxPackshotWidth, c \in 1..MaxPackshotHeight}

\* Lines 164-170: the new size and the centred paste offsets (// rounds
\* towards minus infinity, as \div does).
CompositeLayout(bgW, bgH, pkW, pkH) ==
  LET s == (CHOOSE t \in NewSizes : t.bgW = bgW /\ t.pkW = pkW /\ t.pkH = pkH).size
  IN [newW |-> s.newW, newH |-> s.newH,
      pasteX |-> (bgW - s.newW) \div 2, pasteY |-> (bgH - s.newH) \div 2]

\* Image.resize rejects a size with a side below 1.
ResizeError == Exc("ValueError", FALSE, TRUE, 0, <<"height and width must be > 0">>)
ResizeFails(l) == l.newW < 1 \/ l.newH < 1

InPasteBox(c, l) ==
  /\ l.pasteX <= c[1] /\ c[1] < l.pasteX + l.newW
  /\ l.pasteY <= c[2] /\ c[2] < l.pasteY + l.newH

\* bg.paste(packshot_resized, (paste_x, paste_y), packshot_resized): the
\* packshot is its own mask, and the box is clipped to the background.
Paste(px, l, alpha) ==
  [c \in DOMAIN px |-> IF InPasteBox(c, l) /\ alpha = 255 THEN PackshotColour ELSE px[c]]

\* Faulty variant: pastes onto a copy and leaves the background alone.
CompositeImages_Copy(i) ==
  LET l == CompositeLayout(i.bgW, i.bgH, i.pkW, i.pkH) IN
  IF ResizeFails(l)
  THEN [ok |-> FALSE, exc |-> ResizeError, img |-> i]
  ELSE [ok |-> TRUE, exc |-> NoExc,
        img |-> [i EXCEPT !.layout = l, !.resultBuf = "copy",
                          !.resultPx = Paste(i.bgPx, l, i.alpha)]]

\* composite_images: resize, paste onto bg itself, return bg.
CompositeImages(i) ==
  LET l == CompositeLayout(i.bgW, i.bgH, i.pkW, i.pkH) IN
  IF ResizeFails(l)
  THEN [ok |-> FALSE, exc |-> ResizeError, img |-> i]
  ELSE [ok |-> TRUE, exc |-> NoExc,
        img |-> [i EXCEPT !.layout = l, !.bgPx = Paste(i.bgPx, l, i.alpha),
                          !.resultBuf = "bg",
                          !.resultPx = Paste(i.bgPx, l, i.alpha)]]

\* The sizes the request handler is run on.
PipelineBackgrounds == {<<2, 2>>, <<4, 3>>}
PipelinePackshots == {<<1, 1>>}

\* Faulty variant: the required keys are not checked.
ValidateRequest_NoMissingCheck(p) ==
  IF p.kind = "none"
  THEN [kind |-> "respond", resp |-> ErrorResponse(400, <<"Invalid JSON payload">>)]
  ELSE IF p.kind = "nonobject"
  THEN [kind |-> "raise", resp |-> ErrorResponse(0, <<>>)]
  ELSE [kind |-> "pass", resp |-> ErrorResponse(0, <<>>)]

\* Faulty variant: validation also rejects empty and non-string values.
ValidateRequest_Strict(p) ==
  IF p.kind = "none"
  THEN [kind |-> "respond", resp |-> ErrorResponse(400, <<"Invalid JSON payload">>)]
  ELSE IF p.kind = "nonobject"
  THEN [kind |-> "raise", resp |-> ErrorResponse(0, <<>>)]
  ELSE IF Missing(p) # {}
  THEN [kind |-> "respond", resp |-> ErrorResponse(400, MissingMessage(Missing(p)))]
  ELSE IF p.bad # "none"
  THEN [kind |-> "respond", resp |-> ErrorResponse(400, <<"Invalid field value">>)]
  ELSE [kind |-> "pass", resp |-> ErrorResponse(0, <<>>)]

\* Lines 197-203 of generate_image: parse, then check the required keys.
\* payload.keys() on a JSON value that is not an object raises AttributeError
\* before the try block is entered.
ValidateRequest(p) ==
  IF p.kind = "none"
  THEN [kind |-> "respond", resp |-> ErrorResponse(400, <<"Invalid JSON payload">>)]
  ELSE IF p.kind = "nonobject"
  THEN [kind |-> "raise", resp |-> ErrorResponse(0, <<>>)]
  ELSE IF Missing(p) # {}
  THEN [kind |-> "respond", resp |-> ErrorResponse(400, MissingMessage(Missing(p)))]
  ELSE [kind |-> "pass", resp |-> ErrorResponse(0, <<>>)]

\* ------------------------------------------------------------------------
\* State
\* ------------------------------------------------------------------------
VARIABLES
  pc,         \* position of the handler (or of the function run on its own)
  rawBody,    \* the request body, until get_json has read it
  payload,    \* the parsed payload
  rc,         \* the running retry_call
  script,     \* retry_call on its own: what fn does on its i-th invocation
  prompt,     \* clean_prompt
  img,        \* the background and packshot images
  calls,      \* invocations of the remote operations so far
  llmSU,      \* LLM invocations that raised ServiceUnavailable
  hist,       \* stages entered and completed, the prompt given to the image
              \* model and the URL the upload returned
  failure,    \* the stage whose exception reached the handler, and what it raised
  responses,  \* the (body, status) pairs returned by the handler
  escaped     \* the exception that left the handler, if any

vars == <<pc, rawBody, payload, rc, script, prompt, img, calls, llmSU, hist,
          failure, responses, escaped>>

ConsumedBody == [kind |-> "read", keys |-> <<>>, bad |-> "none", badKind |-> "str"]
NoCalls == [llm |-> 0, imagen |-> 0, fetch |-> 0, upload |-> 0]
NoFailure == [stage |-> "none", exc |-> NoExc]
NoHist == [started |-> <<>>, completed |-> <<>>, imagenPrompt |-> <<>>,
           uploadUrl |-> <<>>]

\* The five stages of the try block, lines 206-214.
Stages == <<"prompt", "background", "fetch", "composite", "upload">>

Enter(h, stage) == [h EXCEPT !.started = Append(@, stage)]
Complete(h, stage) == [h EXCEPT !.completed = Append(@, stage)]

Init ==
  /\ pc = "recv"
  /\ rawBody \in RawBodies
  /\ payload = NoPayload
  /\ rc = RetryInit(DefaultMaxAttempts)
  /\ script = <<>>
  /\ prompt = <<>>
  /\ img = NoImages
  /\ calls = NoCalls
  /\ llmSU = 0
  /\ hist = NoHist
  /\ failure = NoFailure
  /\ responses = <<>>
  /\ escaped = NoExc

\* Faulty variant: a failed packshot download is swallowed and the handler
\* goes on to the upload.
Propagate_Swallow(stage, orig, e) ==
  LET h == HandleException(e) IN
  /\ failure' = [stage |-> stage, exc |-> orig]
  /\ IF stage = "fetch"
     THEN pc' = "encode" /\ escaped' = escaped /\ responses' = responses
     ELSE IF h.raised
     THEN pc' = "raised" /\ escaped' = h.exc /\ responses' = responses
     ELSE pc' = "done" /\ escaped' = escaped /\ responses' = Append(responses, h.resp)

\* An exception reaches the except clauses of generate_image.
Propagate(stage, orig, e) ==
  LET h == HandleException(e) IN
  /\ failure' = [stage |-> stage, exc |-> orig]
  /\ IF h.raised
     THEN pc' = "raised" /\ escaped' = h.exc /\ responses' = responses
     ELSE pc' = "done" /\ escaped' = escaped /\ responses' = Append(responses, h.resp)

Continue(next) ==
  /\ pc' = next
  /\ UNCHANGED <<failure, escaped, responses>>

\* generate_image, lines 197-205.
Validate ==
  /\ pc = "recv"
  /\ LET p == GetJson(rawBody)
         v == ValidateRequest(p)
     IN /\ payload' = p
        /\ rawBody' = ConsumedBody
        /\ IF v.kind = "respond"
           THEN pc' = "done" /\ responses' = Append(responses, v.resp) /\ escaped' = escaped
           ELSE IF v.kind = "raise"
           THEN pc' = "raised" /\ responses' = responses /\ escaped' = AttributeError
           ELSE pc' = "gemini" /\ responses' = responses /\ escaped' = escaped
  /\ rc' = RetryInit(DefaultMaxAttempts)
  /\ UNCHANGED <<script, prompt, img, calls, llmSU, hist, failure>>

\* generate_gemini_prompt, line 128: one invocation of
\* GEMINI_MODEL.generate_content inside retry_call.
GeminiCall ==
  /\ pc = "gemini" /\ rc.status = "calling"
  /\ \E out \in ModelOutcomes(Texts) :
       LET st == RetryOnOutcome(rc, out) IN
       /\ rc' = st
       /\ calls' = [calls EXCEPT !.llm = @ + 1]
       /\ llmSU' = IF ~out.ok /\ IsInstance(out.exc, "ServiceUnavailable")
                   THEN llmSU + 1 ELSE llmSU
       /\ hist' = IF Invocations(rc) = 0 THEN Enter(hist, "prompt") ELSE hist
       /\ IF st.status = "raised"
          THEN Propagate("gemini", out.exc, st.exc)
          ELSE Continue(IF st.status = "returned" THEN "gemini_text" ELSE "gemini")
  /\ UNCHANGED <<rawBody, payload, script, prompt, img>>

\* The sleep of retry_call around the LLM call.
GeminiSleep ==
  /\ pc = "gemini" /\ rc.status = "sleeping"
  /\ \E u \in JitterDraws : rc' = RetrySleep(rc, u)
  /\ UNCHANGED <<pc, rawBody, payload, script, prompt, img, calls, llmSU, hist,
                 failure, responses, escaped>>

\* generate_gemini_prompt, lines 129-131: response.text (which can raise) is
\* cleaned; generate_imagen_background then starts its retry_call.
GeminiText ==
  /\ pc = "gemini_text"
  /\ \E out \in {Ok(rc.val)} \cup {Raise(e) : e \in TextErrors} :
       IF out.ok
       THEN /\ prompt' = CleanPrompt(out.val)
            /\ rc' = RetryInit(DefaultMaxAttempts)
            /\ hist' = Complete(hist, "prompt")
            /\ Continue("imagen")
       ELSE /\ UNCHANGED <<prompt, rc, hist>>
            /\ Propagate("gemini_text", out.exc, out.exc)
  /\ UNCHANGED <<rawBody, payload, script, img, calls, llmSU>>

\* generate_imagen_background, lines 138-143: one invocation of
\* IMAGEN_MODEL.generate_images(prompt=prompt, ...) inside retry_call.
ImagenCall ==
  /\ pc = "imagen" /\ rc.status = "calling"
  /\ \E out \in ModelOutcomes({<<>>, <<"img">>}) :
       LET st == RetryOnOutcome(rc, out) IN
       /\ rc' = st
       /\ calls' = [calls EXCEPT !.imagen = @ + 1]
       /\ hist' = IF Invocations(rc) = 0
                  THEN [Enter(hist, "background") EXCEPT !.imagenPrompt = prompt]
                  ELSE hist
       /\ IF st.status = "raised"
          THEN Propagate("imagen", out.exc, st.exc)
          ELSE Continue(IF st.status = "returned" THEN "imagen_decode" ELSE "imagen")
  /\ UNCHANGED <<rawBody, payload, script, prompt, img, llmSU>>

\* The sleep of retry_call around the image-model call.
ImagenSleep ==
  /\ pc = "imagen" /\ rc.status = "sleeping"
  /\ \E u \in JitterDraws : rc' = RetrySleep(rc, u)
  /\ UNCHANGED <<pc, rawBody, payload, script, prompt, img, calls, llmSU, hist,
                 failure, responses, escaped>>

IndexError == Exc("Exception", FALSE, TRUE, 0, <<"list index out of range">>)

\* Faulty variant: an empty result is passed on as if it held an image.
DecodeOutcomes_Unchecked(images) ==
  {Ok(images)} \cup {Raise(e) : e \in DecodeErrors}

\* Lines 144-145: images[0] raises IndexError on an empty result; Image.open
\* can fail on the bytes.
DecodeOutcomes(images) ==
  IF images = <<>> THEN {Raise(IndexError)}
  ELSE {Ok(images)} \cup {Raise(e) : e \in DecodeErrors}

\* generate_imagen_background, lines 144-145, on the value retry_call
\* returned (its frame is gone afterwards); the decoded background has some
\* size.
ImagenDecode ==
  /\ pc = "imagen_decode"
  /\ \E out \in DecodeOutcomes(rc.val) :
       IF out.ok
       THEN /\ \E bg \in PipelineBackgrounds :
                 img' = Images(bg[1], bg[2], 0, 0, 0)
            /\ hist' = Complete(hist, "background")
            /\ Continue("fetch_get")
            /\ rc' = RetryInit(DefaultMaxAttempts)
       ELSE /\ UNCHANGED <<img, hist, rc>>
            /\ Propagate("imagen_decode", out.exc, out.exc)
  /\ UNCHANGED <<rawBody, payload, script, prompt, calls, llmSU>>

\* download_packshot, line 153: requests.get.
PackshotGet ==
  /\ pc = "fetch_get"
  /\ calls' = [calls EXCEPT !.fetch = @ + 1]
  /\ hist' = Enter(hist, "fetch")
  /\ \E out \in {Ok(<<>>)} \cup {Raise(e) : e \in FetchErrors} :
       IF out.ok
       THEN Continue("fetch_status")
       ELSE Propagate("fetch", out.exc, DownloadError(out.exc))
  /\ UNCHANGED <<rawBody, payload, rc, script, prompt, img, llmSU>>

\* download_packshot, line 154: response.raise_for_status().
PackshotRaiseForStatus ==
  /\ pc = "fetch_status"
  /\ \E out \in {Ok(<<>>)} \cup {Raise(e) : e \in PlainErrors("RequestException")} :
       IF out.ok
       THEN Continue("fetch_open")
       ELSE Propagate("fetch", out.exc, DownloadError(out.exc))
  /\ UNCHANGED <<rawBody, payload, rc, script, prompt, img, calls, llmSU, hist>>

\* download_packshot, line 155: Image.open(response.raw).convert("RGBA"); the
\* packshot has some size.
PackshotOpen ==
  /\ pc = "fetch_open"
  /\ \E out \in {Ok(<<>>)} \cup {Raise(e) : e \in OpenErrors} :
       IF out.ok
       THEN /\ \E pk \in PipelinePackshots :
                 img' = [img EXCEPT !.pkW = pk[1], !.pkH = pk[2], !.alpha = 255]
            /\ hist' = Complete(hist, "fetch")
            /\ Continue("composite")
       ELSE /\ UNCHANGED <<img, hist>>
            /\ Propagate("packshot_open", out.exc, DownloadError(out.exc))
  /\ UNCHANGED <<rawBody, payload, rc, script, prompt, calls, llmSU>>

\* composite_images(bg_image, packshot), line 213.
Composite ==
  /\ pc = "composite"
  /\ LET r == CompositeImages(img) IN
       IF r.ok
       THEN /\ img' = r.img
            /\ hist' = Complete(Enter(hist, "composite"), "composite")
            /\ Continue("encode")
       ELSE /\ img' = r.img
            /\ hist' = Enter(hist, "composite")
            /\ Propagate("composite", r.exc, r.exc)
  /\ UNCHANGED <<rawBody, payload, rc, script, prompt, calls, llmSU>>

\* upload_to_gcs, lines 178-182: the PNG is encoded into a buffer.
EncodePng ==
  /\ pc = "encode"
  /\ hist' = Enter(hist, "upload")
  /\ \E out \in {Ok(<<>>)} \cup {Raise(e) : e \in EncodeErrors} :
       IF out.ok
       THEN Continue("upload")
       ELSE Propagate("encode", out.exc, out.exc)
  /\ UNCHANGED <<rawBody, payload, rc, script, prompt, img, calls, llmSU>>

\* upload_to_gcs, lines 183-185, and the success return of generate_image.
Upload ==
  /\ pc = "upload"
  /\ calls' = [calls EXCEPT !.upload = @ + 1]
  /\ \E out \in {Ok(PublicUrl(u)) : u \in Uuids} \cup {Raise(e) : e \in StorageErrors} :
       IF out.ok
       THEN /\ pc' = "done"
            /\ hist' = [Complete(hist, "upload") EXCEPT !.uploadUrl = out.val]
            /\ responses' = Append(responses, SuccessResponse(out.val, prompt))
            /\ UNCHANGED <<failure, escaped>>
       ELSE /\ hist' = hist
            /\ Propagate("upload", out.exc, out.exc)
  /\ UNCHANGED <<rawBody, payload, rc, script, prompt, img, llmSU>>

Next ==
  \/ Validate
  \/ GeminiCall
  \/ GeminiSleep
  \/ GeminiText
  \/ ImagenCall
  \/ ImagenSleep
  \/ ImagenDecode
  \/ PackshotGet
  \/ PackshotRaiseForStatus
  \/ PackshotOpen
  \/ Composite
  \/ EncodePng
  \/ Upload

Spec == Init /\ [][Next]_vars

\* ------------------------------------------------------------------------
\* retry_call on its own: any max_attempts from 1 up, around an operation
\* whose behaviour on each invocation is fixed beforehand.
\* ------------------------------------------------------------------------
RetryOutcomes ==
  {Ok(<<"v1">>), Ok(<<"v2">>)}
  \cup {Raise(e) : e \in ServiceUnavailableErrors}
  \cup {Raise(Exc("GoogleAPICallError", TRUE, FALSE, 429, <<"m1">>)),
        Raise(Exc("ValueError", FALSE, TRUE, 0, <<"m1">>))}

InitRetry ==
  /\ pc = "retry"
  /\ rawBody = ConsumedBody
  /\ payload = NoPayload
  /\ \E n \in 1..MaxAttemptsBound : rc = RetryInit(n)
  /\ script \in [1..MaxAttemptsBound -> RetryOutcomes]
  /\ prompt = <<>>
  /\ img = NoImages
  /\ calls = NoCalls
  /\ llmSU = 0
  /\ hist = NoHist
  /\ failure = NoFailure
  /\ responses = <<>>
  /\ escaped = NoExc

\* retry_call, lines 92-97: fn is invoked once more.
RetryInvoke ==
  /\ pc = "retry" /\ rc.status = "calling"
  /\ Invocations(rc) < Len(script)
  /\ rc' = RetryOnOutcome(rc, script[Invocations(rc) + 1])
  /\ UNCHANGED <<pc, rawBody, payload, script, prompt, img, calls, llmSU, hist,
                 failure, responses, escaped>>

\* retry_call, lines 99-102: the back-off sleep.
RetryBackoff ==
  /\ pc = "retry" /\ rc.status = "sleeping"
  /\ \E u \in JitterDraws : rc' = RetrySleep(rc, u)
  /\ UNCHANGED <<pc, rawBody, payload, script, prompt, img, calls, llmSU, hist,
                 failure, responses, escaped>>

NextRetry ==
  \/ RetryInvoke
  \/ RetryBackoff

SpecRetry == InitRetry /\ [][NextRetry]_vars

\* ------------------------------------------------------------------------
\* composite_images on its own, over all sizes within the bounds.
\* ------------------------------------------------------------------------
InitComposite ==
  /\ pc = "composite_call"
  /\ rawBody = ConsumedBody
  /\ payload = NoPayload
  /\ rc = RetryInit(DefaultMaxAttempts)
  /\ script = <<>>
  /\ prompt = <<>>
  /\ \E bgW \in 1..MaxBgWidth, bgH \in 1..MaxBgHeight,
        pkW \in 1..MaxPackshotWidth, pkH \in 1..MaxPackshotHeight, a \in Alphas :
       img = Images(bgW, bgH, pkW, pkH, a)
  /\ calls = NoCalls
  /\ llmSU = 0
  /\ hist = NoHist
  /\ failure = NoFailure
  /\ responses = <<>>
  /\ escaped = NoExc

\* composite_images(bg, packshot) runs.
CompositeCall ==
  /\ pc = "composite_call"
  /\ LET r == CompositeImages(img) IN
       /\ img' = r.img
       /\ pc' = IF r.ok THEN "composite_returned" ELSE "composite_raised"
       /\ escaped' = r.exc
  /\ UNCHANGED <<rawBody, payload, rc, script, prompt, calls, llmSU, hist,
                 failure, responses>>

NextComposite == CompositeCall

SpecComposite == InitComposite /\ [][NextComposite]_vars

\* ------------------------------------------------------------------------
\* The handler under a server that keeps running it: a request that can take
\* a step eventually takes it.  Neither the order of the keys nor the
\* values play a part after validation, so each set of keys is sent once.
\* ------------------------------------------------------------------------
\* One body per set of keys: the keys in sorted order, with string values.
InitFair ==
  /\ Init
  /\ rawBody.bad = "none"
  /\ rawBody.kind = "object" => rawBody.keys = Sorted(Range(rawBody.keys))

SpecFair == InitFair /\ [][Next]_vars /\ WF_vars(Next)

\* ------------------------------------------------------------------------
\* Properties
\* ------------------------------------------------------------------------
Terminated == pc \in {"done", "raised"}
ValidRequest == payload.kind = "dict" /\ Missing(payload) = {}

IsSuccessPayload(r) ==
  /\ r.status = 200
  /\ r.success
  /\ r.keys = {"success", "imageUrl", "geminiGeneratedPrompt"}

IsErrorPayload(r) == "error" \in r.keys /\ r.error # <<>>

\* C1: every request carrying all four required fields ends with exactly one
\* response, which is either the success payload or an error payload with a
\* non-empty message, whatever the stages return or raise.
C1_ExactlyOnePayload ==
  (Terminated /\ ValidRequest) =>
    /\ Len(responses) = 1
    /\ IsSuccessPayload(responses[1]) # IsErrorPayload(responses[1])

CanonicalOrder ==
  <<"background_description", "copy", "general_description", "packshot_url">>
InSet(S) == LET Test(f) == f \in S IN SelectSeq(CanonicalOrder, Test)

\* C2: when a non-empty set S of required fields is absent from a JSON-object
\* body, the response is 400 and its message is the prefix followed by
\* exactly the names of S in ascending order, separated by ", ".
C2_MissingFieldsNamed ==
  (Terminated /\ payload.kind = "dict" /\ Missing(payload) # {}) =>
    LET S == REQUIRED_FIELDS \ payload.keys
        names == InSet(S)
        n == Cardinality(S)
    IN /\ pc = "done"
       /\ Len(responses) = 1
       /\ responses[1].status = 400
       /\ responses[1].keys = {"error"}
       /\ Len(responses[1].error) = 2 * n
       /\ responses[1].error[1] = "Missing required field(s): "
       /\ \A i \in 1..n : responses[1].error[2 * i] = names[i]
       /\ \A i \in 1..(n - 1) : responses[1].error[2 * i + 1] = ", "
       /\ calls = NoCalls

C2_Witness ==
  /\ pc = "done"
  /\ payload.kind = "dict"
  /\ payload.keys = {"background_description", "extra"}
  /\ Len(responses) = 1
  /\ responses[1].error =
       <<"Missing required field(s): ", "copy", ", ", "general_description",
         ", ", "packshot_url">>

IsTransient(out) == ~out.ok /\ IsInstance(out.exc, "ServiceUnavailable")
RetryTerminated == rc.status \in {"returned", "raised"}
Alternates(trace) ==
  \A i \in 1..Len(trace) : trace[i] = IF i % 2 = 1 THEN "call" ELSE "sleep"

\* C3: if fn raises ServiceUnavailable on its first k invocations, k below
\* max_attempts, and then succeeds, retry_call returns that value after
\* exactly k+1 invocations and k sleeps, one sleep between two invocations.
C3_SucceedsAfterKTransients ==
  pc = "retry" =>
    \A k \in 0..(rc.max - 1) :
      ((\A i \in 1..k : IsTransient(script[i])) /\ script[k + 1].ok) =>
        /\ Invocations(rc) <= k + 1
        /\ Sleeps(rc) <= k
        /\ Alternates(rc.trace)
        /\ RetryTerminated =>
             /\ rc.status = "returned"
             /\ rc.val = script[k + 1].val
             /\ Invocations(rc) = k + 1
             /\ Sleeps(rc) = k

C3_Witness ==
  /\ pc = "retry"
  /\ rc.status = "returned"
  /\ rc.max >= 3
  /\ Sleeps(rc) = rc.max - 1
  /\ rc.val = <<"v2">>

\* C4: if fn raises ServiceUnavailable on every invocation, retry_call raises
\* after exactly max_attempts invocations, and what it raises is the error of
\* the last invocation, unchanged.
C4_ExhaustionRaisesLastError ==
  (pc = "retry" /\ \A i \in 1..rc.max : IsTransient(script[i])) =>
    /\ Invocations(rc) <= rc.max
    /\ rc.status # "returned"
    /\ rc.status = "raised" =>
         /\ Invocations(rc) = rc.max
         /\ rc.exc = script[rc.max].exc

C4_Witness ==
  /\ pc = "retry"
  /\ rc.status = "raised"
  /\ rc.max >= 3
  /\ Invocations(rc) = rc.max
  /\ IsInstance(rc.exc, "ServiceUnavailable")
  /\ script[1].exc # script[rc.max].exc

\* C5: an error of any class other than ServiceUnavailable, raised by any
\* invocation, leaves retry_call at once: no further invocation, no sleep
\* after it.
C5_OtherErrorsPropagateAtOnce ==
  pc = "retry" =>
    \A i \in 1..Invocations(rc) :
      (~script[i].ok /\ ~IsInstance(script[i].exc, "ServiceUnavailable")) =>
        /\ rc.status = "raised"
        /\ rc.exc = script[i].exc
        /\ Invocations(rc) = i
        /\ Len(rc.trace) = 2 * i - 1
        /\ rc.trace[Len(rc.trace)] = "call"

C5_Witness ==
  /\ pc = "retry"
  /\ rc.status = "raised"
  /\ rc.exc.cls = "GoogleAPICallError"
  /\ Invocations(rc) = 2
  /\ rc.max >= 3

\* C6: when every invocation of the LLM raises ServiceUnavailable, the
\* request ends with status 503 and an error payload, and the storage upload
\* is never invoked.
C6_LlmUnavailableGives503 ==
  (ValidRequest /\ llmSU = calls.llm) =>
    /\ calls.upload = 0
    /\ (Terminated /\ calls.llm >= 1) =>
         /\ pc = "done"
         /\ Len(responses) = 1
         /\ responses[1].status = 503
         /\ IsErrorPayload(responses[1])
         /\ ~IsSuccessPayload(responses[1])

C6_Witness ==
  /\ pc = "done"
  /\ llmSU = DefaultMaxAttempts
  /\ calls.llm = DefaultMaxAttempts
  /\ Len(responses) = 1
  /\ responses[1].status = 503
  /\ calls.upload = 0

\* C7: an upstream API error from the LLM or image-model stage gives a body
\* with 'error' and 'details' and the error's status code, or 503 when the
\* error has no status code.
C7_UpstreamStatusOrFallback ==
  (Terminated /\ failure.stage \in {"gemini", "imagen"}
     /\ IsInstance(failure.exc, "GoogleAPICallError")) =>
    /\ Len(responses) = 1
    /\ responses[1].keys = {"error", "details"}
    /\ responses[1].status =
         IF failure.exc.hasCode /\ ~failure.exc.codeIsNone
         THEN failure.exc.codeValue ELSE 503

\* C8: a failed storage upload gives status 500, and the upload was invoked
\* exactly once.
C8_UploadFailureGives500 ==
  (Terminated /\ failure.stage = "upload") =>
    /\ Len(responses) = 1
    /\ responses[1].status = 500
    /\ calls.upload = 1

FetchFailed == failure.stage = "fetch" /\ IsInstance(failure.exc, "RequestException")

BadValue == ValidRequest /\ payload.bad # "none"

\* C10 as stated: a request with all four keys but an empty or non-string
\* required value is rejected with 400 before any remote operation.
C10_BadValueRejected ==
  BadValue =>
    /\ pc = "done"
    /\ Len(responses) = 1
    /\ responses[1].status = 400
    /\ calls = NoCalls

\* C10 amended: a request with all four keys passes validation even when a
\* required value is empty or not a string: no response is produced before
\* the LLM has been invoked.
C10_BadValuePassesValidation ==
  BadValue =>
    \/ pc = "gemini" /\ responses = <<>> /\ escaped = NoExc
    \/ calls.llm >= 1

C10_Witness ==
  /\ BadValue
  /\ payload.badKind = "empty"
  /\ pc = "done"
  /\ Len(responses) = 1
  /\ IsSuccessPayload(responses[1])
  /\ calls.upload = 1

\* ------------------------------------------------------------------------
\* C11: the stages run in the order prompt, background, fetch, composite,
\* upload, each starting only after the one before it has completed; a failure
\* ends the request with no later stage entered; and when the request ends on
\* a failure of a stage before the upload, the upload was never invoked.
\* ------------------------------------------------------------------------
Prefix(s, t) == Len(s) <= Len(t) /\ s = SubSeq(t, 1, Len(s))

UploadStages == {"encode", "upload"}

C11_StagesInOrderShortCircuit ==
  /\ Prefix(hist.started, Stages)
  /\ Prefix(hist.completed, hist.started)
  /\ Len(hist.started) <= Len(hist.completed) + 1
  /\ calls.imagen > 0 => Len(hist.completed) >= 1
  /\ calls.fetch > 0 => Len(hist.completed) >= 2
  /\ calls.upload > 0 => Len(hist.completed) >= 4
  /\ failure.stage # "none" =>
       /\ Terminated
       /\ Len(hist.started) = Len(hist.completed) + 1
  /\ (failure.stage # "none" /\ failure.stage \notin UploadStages) =>
       /\ calls.upload = 0
       /\ "upload" \notin Range(hist.started)
       /\ \A i \in 1..Len(responses) : responses[i].status # 200

\* The packshot could not be opened: two stages done, a non-200 response, no
\* upload.
C11_Witness ==
  /\ pc = "done"
  /\ failure.stage = "packshot_open"
  /\ hist.started = <<"prompt", "background", "fetch">>
  /\ hist.completed = <<"prompt", "background">>
  /\ Len(responses) = 1 /\ responses[1].status # 200
  /\ calls.upload = 0

\* ------------------------------------------------------------------------
\* C12: a 200 response exists exactly when all five stages completed; its
\* imageUrl is the URL the upload returned, and its geminiGeneratedPrompt is
\* the prompt given to the image model, which is the LLM text with the
\* surrounding whitespace removed and every newline replaced by a space.
\* ------------------------------------------------------------------------
\* p is text without its leading and trailing whitespace, newlines as spaces.
PostProcessed(text, p) ==
  LET ns == {i \in 1..Len(text) : ~IsSpace(text[i])} IN
  IF ns = {} THEN p = <<>>
  ELSE LET lo == CHOOSE i \in ns : \A j \in ns : i <= j
           hi == CHOOSE i \in ns : \A j \in ns : j <= i
       IN /\ Len(p) = hi - lo + 1
          /\ \A k \in 1..Len(p) :
               p[k] = IF text[lo + k - 1] = "\n" THEN " " ELSE text[lo + k - 1]

Has200 == \E i \in 1..Len(responses) : responses[i].status = 200

C12_SuccessIffAllStages ==
  /\ [](/\ Has200 <=> hist.completed = Stages
        /\ Len(hist.started) >= 2 => hist.imagenPrompt = prompt
        /\ \A i \in 1..Len(responses) :
             responses[i].status = 200 =>
               /\ IsSuccessPayload(responses[i])
               /\ responses[i].imageUrl = hist.uploadUrl
               /\ responses[i].geminiGeneratedPrompt = hist.imagenPrompt)
  /\ [][(pc = "gemini_text" /\ pc' = "imagen") => PostProcessed(rc.val, prompt')]_vars

\* A 200 whose prompt had a newline inside and whitespace around it.
C12_Witness ==
  /\ pc = "done"
  /\ Has200
  /\ hist.completed = Stages
  /\ responses[1].geminiGeneratedPrompt = <<"a", " ", "a">>
  /\ responses[1].imageUrl = PublicUrl("u2")

\* ------------------------------------------------------------------------
\* C13: when the image model returns no image, the request ends at once with
\* an error payload and status 400 or 500; the image model is not invoked
\* again (it was invoked once if that was its first call), and neither the
\* fetch nor the upload is invoked.
\* ------------------------------------------------------------------------
C13_EmptyResultFailsUnretried ==
  [][(pc = "imagen_decode" /\ rc.val = <<>>) =>
       /\ pc' = "done"
       /\ Len(responses') = 1
       /\ responses'[1].status \in {400, 500}
       /\ IsErrorPayload(responses'[1])
       /\ calls' = calls
       /\ calls.fetch = 0 /\ calls.upload = 0
       /\ calls.imagen = Invocations(rc)
       /\ rc.trace[Len(rc.trace)] = "call"
       /\ Sleeps(rc) = 0 => calls.imagen = 1]_vars

\* The first call returned no image.
C13_Witness ==
  /\ pc = "done"
  /\ failure.stage = "imagen_decode" /\ failure.exc = IndexError
  /\ calls.imagen = 1 /\ calls.fetch = 0 /\ calls.upload = 0
  /\ Len(responses) = 1 /\ responses[1].status = 500

\* ------------------------------------------------------------------------
\* C14: for every background W x H and packshot w x h within the bounds, the
\* resized packshot is floor(W * 0.45) wide and floor(newW * h / w) high and
\* is pasted at floor((W - newW) / 2), floor((H - newH) / 2), so that opposite
\* margins differ by at most one pixel, also when the packshot is higher than
\* the background.
\* ------------------------------------------------------------------------
C14_CompositeGeometry ==
  pc = "composite_returned" =>
    LET l == img.layout
        right == img.bgW - l.newW - l.pasteX
        bottom == img.bgH - l.newH - l.pasteY
    IN /\ l.newW = (45 * img.bgW) \div 100
       /\ l.newH = (l.newW * img.pkH) \div img.pkW
       /\ l.pasteX = (img.bgW - l.newW) \div 2
       /\ l.pasteY = (img.bgH - l.newH) \div 2
       /\ right - l.pasteX \in {0, 1}
       /\ bottom - l.pasteY \in {0, 1}

\* ------------------------------------------------------------------------
\* C15: the sleep after the i-th failed attempt, i below max_attempts, lasts
\* between b * 2^(i-1) * (1 - j) and b * 2^(i-1) * (1 + j), so the nominal
\* delay doubles from one retry to the next.
\* ------------------------------------------------------------------------
C15_SleepWithinJitterBand ==
  (pc = "retry" /\ Sleeps(rc) >= 1) =>
    LET i == Sleeps(rc)
        nominal == BaseDelayMs * Pow2(i - 1)
    IN /\ i < rc.max
       /\ nominal * (1000 - JitterPermille) <= rc.lastSleep
       /\ rc.lastSleep <= nominal * (1000 + JitterPermille)
       /\ i >= 2 => nominal = 2 * BaseDelayMs * Pow2(i - 2)

\* The third sleep, at the top of its band: 1.5 s * 4 * 1.2.
C15_Witness ==
  /\ pc = "retry"
  /\ Sleeps(rc) = 3
  /\ rc.lastSleep = 6000 * 1200

C17_DegenerateCompositeIsNoOp ==
  ("composite" \in Range(hist.started) /\ img.bgW \in {1, 2}) =>
    /\ failure.stage # "composite"
    /\ "composite" \in Range(hist.completed)
    /\ img.resultPx = img.bgPx0
    /\ (Terminated /\ failure.stage = "none") => Has200

\* ------------------------------------------------------------------------
\* C18: every run of the handler terminates, having invoked the LLM at most
\* max_attempts (5) times and the image model at most 5 times.
\* ------------------------------------------------------------------------
C18_TerminatesWithinFiveInvocations ==
  /\ <>Terminated
  /\ [](calls.llm <= DefaultMaxAttempts /\ calls.imagen <= DefaultMaxAttempts)

\* Both retry loops ran to their last attempt.
C18_Witness ==
  /\ Terminated
  /\ calls.llm = DefaultMaxAttempts
  /\ calls.imagen = DefaultMaxAttempts

\* ------------------------------------------------------------------------
\* C19: a request whose body is absent, unparseable or lacks a required field
\* ends with 400 before the LLM, the image model, the fetch or the upload has
\* been invoked; a request that passes validation invokes the LLM at least
\* once.
\* ------------------------------------------------------------------------
RejectedBody ==
  /\ pc # "recv"
  /\ payload.kind = "none" \/ (payload.kind = "dict" /\ Missing(payload) # {})

C19_ValidationPrecedesSideEffects ==
  /\ RejectedBody =>
       /\ pc = "done"
       /\ Len(responses) = 1 /\ responses[1].status = 400
       /\ calls = NoCalls
       /\ hist.started = <<>>
  /\ (Len(responses) = 1 /\ responses[1].status = 400 /\ failure.stage = "none") =>
       calls = NoCalls
  /\ calls # NoCalls => ValidRequest
  /\ (Terminated /\ ValidRequest) => calls.llm >= 1

\* A body without "copy" was answered 400 with nothing invoked.
C19_Witness ==
  /\ pc = "done"
  /\ payload.kind = "dict" /\ Missing(payload) = {"copy"}
  /\ Len(responses) = 1 /\ responses[1].status = 400
  /\ calls = NoCalls

\* ------------------------------------------------------------------------
\* C20: retry_call never sleeps after its last invocation: once it has
\* returned or raised, the sleeps number one less than the invocations, so
\* exhausting N = max_attempts attempts takes N - 1 sleeps and the last error
\* is raised straight after the last invocation.
\* ------------------------------------------------------------------------
C20_NoSleepAfterLastInvocation ==
  (pc = "retry" /\ RetryTerminated) =>
    /\ Invocations(rc) >= 1
    /\ Sleeps(rc) = Invocations(rc) - 1
    /\ rc.trace[Len(rc.trace)] = "call"
    /\ (\A i \in 1..rc.max : IsTransient(script[i])) =>
         /\ Invocations(rc) = rc.max
         /\ Sleeps(rc) = rc.max - 1

\* All five attempts failed transiently: five invocations, four sleeps.
C20_Witness ==
  /\ pc = "retry"
  /\ rc.status = "raised"
  /\ rc.max = DefaultMaxAttempts
  /\ \A i \in 1..rc.max : IsTransient(script[i])
  /\ Sleeps(rc) = DefaultMaxAttempts - 1
  /\ rc.trace[Len(rc.trace)] = "call"

====
